---- MODULE Spec2Model ----
(***************************************************************************)
(* memorial-wall-backend: the bounded photo catalog (Postgres table        *)
(* `photos`), the Cloudinary blob store, the capacity enforcer             *)
(* (enforceMaxPhotos), the upload and delete request handlers and the SSE  *)
(* fan-out (sseClients / sseSend) of src/server.js.  The older SQLite      *)
(* build of the same server (src/unnamed/part_000) differs in the SQL      *)
(* dialect; where the dialect decides a result the model carries both.     *)
(*                                                                         *)
(* One step of the model is one suspension point of the code: the awaited  *)
(* operation (a SQL statement or a Cloudinary call) takes effect and the   *)
(* handler runs on to its next await.                                      *)
(***************************************************************************)
EXTENDS Integers, Sequences, FiniteSets, TLC

(* ------------------------------ bounds -------------------------------- *)
\* upload requests of a run; the request that draws uuid i is upload i
MaxUploads == 3
\* DELETE /photos/:id requests of a run
MaxDeletes == 2
\* GET /events connections of a run
MaxSubs == 2
\* readings of the millisecond clock (new Date()) a run can see
MaxClock == 3
\* requests (uploads, deletes, /events connections) of a run of the server
MaxRequests == 3

\* characters of a ?limit= value a caller sends
MaxLimitLen == 4
\* GET /photos responses a run keeps for comparison
MaxLists == 2

(* ------------------------- program constants -------------------------- *)
\* process.env.MAX_PHOTOS: the configured catalog bound (spec scenario: 2)
MAX_PHOTOS == 2
\* process.env.ADMIN_KEY || "12345"
ADMIN_KEY == "12345"
\* the Cloudinary folder of every upload
folder == "memorial_wall"
\* the ceiling of Math.min(parseInt(...), 2000)
LimitCeiling == 2000
\* the literal "800" of req.query.limit || "800"
DefaultLimit == <<"8", "0", "0">>

Ids == 1..MaxUploads
Dels == 1..MaxDeletes
Subs == 1..MaxSubs
Times == 1..MaxClock

\* the x-admin-key header values a caller can send (NoHeader: header absent)
NoHeader == "undefined"
Keys == {NoHeader, ADMIN_KEY, "wrong"}

\* uploadResult.public_id for public_id: id under `folder`
PublicId(id) == <<folder, id>>

\* the row INSERT INTO photos writes (url and thumbnail_url are strings
\* derived from public_id and never read back by the handlers)
Row(id, t) == [id |-> id, public_id |-> PublicId(id), created_at |-> t]

Min(a, b) == IF a <= b THEN a ELSE b

(* ------------------------------ SQL ----------------------------------- *)
\* ORDER BY created_at DESC: the sort key is created_at alone, so rows with
\* equal created_at come back in an order the database is free to choose.
\* The set of the orders the statement can return on the rows S.
RECURSIVE OrderByCreatedAtDesc(_)
OrderByCreatedAtDesc(S) ==
  IF S = {} THEN {<<>>}
  ELSE UNION {{<<r>> \o q : q \in OrderByCreatedAtDesc(S \ {r})}
                : r \in {x \in S : \A y \in S : x.created_at >= y.created_at}}

\* OFFSET n of an ordered result
Offset(q, n) == SubSeq(q, n + 1, Len(q))

\* SELECT id, public_id FROM photos ORDER BY created_at DESC OFFSET MAX_PHOTOS
\* : the results the statement can return on table S
SelectExtra(S) ==
  {[k \in DOMAIN Offset(q, MAX_PHOTOS) |->
      [id |-> Offset(q, MAX_PHOTOS)[k].id, public_id |-> Offset(q, MAX_PHOTOS)[k].public_id]]
     : q \in OrderByCreatedAtDesc(S)}

\* DELETE FROM photos WHERE id = ANY(ids)
DeleteAny(S, ids) == {r \in S : r.id \notin ids}

(* ----------------------------- state ---------------------------------- *)
VARIABLES
  clock,       \* the last reading of new Date()
  catalog,     \* the rows of table photos
  blobs,       \* the public_ids Cloudinary holds
  up,          \* per upload request: where the handler stands, its result
  enf,         \* per upload: the enforceMaxPhotos() call it started
  del,         \* per delete request: where the handler stands, its result
  sseClients,  \* the Set of open /events responses
  frames,      \* per /events connection: the frames written to it
  engine,      \* the build that runs: "pg" (server.js) or "sqlite" (part_000)
  photosRes    \* the GET /photos responses kept for comparison

vars == <<clock, catalog, blobs, up, enf, del, sseClients, frames, engine, photosRes>>

UpIdle == [pc |-> "idle", createdAt |-> 0, status |-> 0, error |-> ""]
EnfNone == [pc |-> "none", rows |-> <<>>, i |-> 0]
DelIdle == [pc |-> "idle", id |-> 0, key |-> NoHeader, publicId |-> <<>>,
            destroyed |-> FALSE, status |-> 0]

Init ==
  /\ clock = 1
  /\ catalog = {}
  /\ blobs = {}
  /\ up = [u \in Ids |-> UpIdle]
  /\ enf = [u \in Ids |-> EnfNone]
  /\ del = [d \in Dels |-> DelIdle]
  /\ sseClients = {}
  /\ frames = [s \in Subs |-> <<>>]
  /\ engine = "pg"
  /\ photosRes = <<>>

(* --------------------------- LiveUpdateBus ---------------------------- *)
\* sseSend that writes to every response ever opened, closed ones included
sseSend_EveryResponse(data) ==
  frames' = [s \in Subs |-> IF frames[s] # <<>> THEN Append(frames[s], data)
                            ELSE frames[s]]

\* sseSend(data): one write to every response in sseClients
sseSend(data) ==
  frames' = [s \in Subs |-> IF s \in sseClients THEN Append(frames[s], data)
                            ELSE frames[s]]

(* --------------------------- UploadPipeline --------------------------- *)
\* new Date(): the millisecond clock reads what it read last, or later
Now == {t \in Times : t = clock \/ t = clock + 1}

\* UploadRequest that skips the Cloudinary upload: the handler goes straight
\* to the INSERT
UploadRequest_SkipBlob(u, hasFile, now) ==
  /\ up[u].pc = "idle"
  /\ IF hasFile
       THEN /\ up' = [up EXCEPT ![u].pc = "insert", ![u].createdAt = now]
            /\ clock' = now
       ELSE /\ up' = [up EXCEPT ![u].pc = "done", ![u].status = 400]
            /\ clock' = clock
  /\ UNCHANGED <<catalog, blobs, enf, del, sseClients, frames, engine, photosRes>>

\* POST /upload arrives: 400 without a file; otherwise id = uuidv4(),
\* createdAt = new Date() and the Cloudinary upload_stream is started.
\* up[u].error is err.message of the catch block: which call threw.
UploadRequest(u, hasFile, now) ==
  /\ up[u].pc = "idle"
  /\ IF hasFile
       THEN /\ up' = [up EXCEPT ![u].pc = "upload_stream", ![u].createdAt = now]
            /\ clock' = now
       ELSE /\ up' = [up EXCEPT ![u].pc = "done", ![u].status = 400]
            /\ clock' = clock
  /\ UNCHANGED <<catalog, blobs, enf, del, sseClients, frames, engine, photosRes>>

\* UploadStream with the rejection of the upload promise ignored: the
\* handler goes on to the INSERT without a blob
UploadStream_IgnoreError(u, ok) ==
  /\ up[u].pc = "upload_stream"
  /\ blobs' = IF ok THEN blobs \cup {PublicId(u)} ELSE blobs
  /\ up' = [up EXCEPT ![u].pc = "insert", ![u].error = IF ok THEN "" ELSE "cloudinary"]
  /\ UNCHANGED <<clock, catalog, enf, del, sseClients, frames, engine, photosRes>>

\* the upload_stream callback: the blob is stored and the INSERT is issued,
\* or the promise rejects and the catch block answers 500
UploadStream(u, ok) ==
  /\ up[u].pc = "upload_stream"
  /\ IF ok
       THEN /\ blobs' = blobs \cup {PublicId(u)}
            /\ up' = [up EXCEPT ![u].pc = "insert"]
       ELSE /\ blobs' = blobs
            /\ up' = [up EXCEPT ![u] = [pc |-> "done", createdAt |-> 0, status |-> 500,
                                        error |-> "cloudinary"]]
  /\ UNCHANGED <<clock, catalog, enf, del, sseClients, frames, engine, photosRes>>

\* InsertPhoto with photo_uploaded sent before the INSERT is awaited: the
\* event goes out whether or not the row was written
InsertPhoto_SendFirst(u, ok) ==
  /\ up[u].pc = "insert"
  /\ sseSend([type |-> "photo_uploaded", id |-> u])
  /\ IF ok
       THEN /\ catalog' = catalog \cup {Row(u, up[u].createdAt)}
            /\ enf' = [enf EXCEPT ![u] = [pc |-> "select", rows |-> <<>>, i |-> 0]]
            /\ up' = [up EXCEPT ![u].pc = "done", ![u].status = 200]
       ELSE /\ up' = [up EXCEPT ![u] = [pc |-> "done", createdAt |-> 0, status |-> 500,
                                        error |-> "pg"]]
            /\ UNCHANGED <<catalog, enf>>
  /\ UNCHANGED <<clock, blobs, del, sseClients, engine, photosRes>>

\* the INSERT completes: enforceMaxPhotos() is called and not awaited (its
\* SELECT is issued), photo_uploaded is sent and the handler answers 200;
\* a failed INSERT goes to the catch block, which answers 500
InsertPhoto(u, ok) ==
  /\ up[u].pc = "insert"
  /\ IF ok
       THEN /\ catalog' = catalog \cup {Row(u, up[u].createdAt)}
            /\ enf' = [enf EXCEPT ![u] = [pc |-> "select", rows |-> <<>>, i |-> 0]]
            /\ sseSend([type |-> "photo_uploaded", id |-> u])
            /\ up' = [up EXCEPT ![u].pc = "done", ![u].status = 200]
       ELSE /\ up' = [up EXCEPT ![u] = [pc |-> "done", createdAt |-> 0, status |-> 500,
                                        error |-> "pg"]]
            /\ UNCHANGED <<catalog, enf, frames>>
  /\ UNCHANGED <<clock, blobs, del, sseClients, engine, photosRes>>

(* -------------------------- CapacityEnforcer -------------------------- *)
\* EnforceSelect whose failure reaches the upload's catch block: the
\* upload that started the run answers 500
EnforceSelect_Surface(u, ok) ==
  /\ enf[u].pc = "select"
  /\ IF ok
       THEN /\ \E extra \in SelectExtra(catalog) :
                 enf' = [enf EXCEPT ![u] =
                           IF Len(extra) = 0 THEN [pc |-> "done", rows |-> <<>>, i |-> 0]
                           ELSE [pc |-> "destroy", rows |-> extra, i |-> 1]]
            /\ up' = up
       ELSE /\ enf' = [enf EXCEPT ![u].pc = "rejected"]
            /\ up' = [up EXCEPT ![u].status = 500, ![u].error = "pg"]
  /\ UNCHANGED <<clock, catalog, blobs, del, sseClients, frames, engine, photosRes>>

\* EnforceSelect that goes to the DELETE of the rows without the destroy
\* loop
EnforceSelect_SkipDestroy(u, ok) ==
  /\ enf[u].pc = "select"
  /\ IF ok
       THEN \E extra \in SelectExtra(catalog) :
              enf' = [enf EXCEPT ![u] =
                        IF Len(extra) = 0 THEN [pc |-> "done", rows |-> <<>>, i |-> 0]
                        ELSE [pc |-> "delete", rows |-> extra, i |-> 1]]
       ELSE enf' = [enf EXCEPT ![u].pc = "rejected"]
  /\ UNCHANGED <<clock, catalog, blobs, up, del, sseClients, frames, engine, photosRes>>

\* the SELECT ... OFFSET MAX_PHOTOS of enforceMaxPhotos returns: no rows
\* ends the run, rows are kept as ids/publicIds; a failed query rejects the
\* promise, which the caller's .catch(() => {}) swallows
EnforceSelect(u, ok) ==
  /\ enf[u].pc = "select"
  /\ IF ok
       THEN \E extra \in SelectExtra(catalog) :
              enf' = [enf EXCEPT ![u] =
                        IF Len(extra) = 0 THEN [pc |-> "done", rows |-> <<>>, i |-> 0]
                        ELSE [pc |-> "destroy", rows |-> extra, i |-> 1]]
       ELSE enf' = [enf EXCEPT ![u].pc = "rejected"]
  /\ UNCHANGED <<clock, catalog, blobs, up, del, sseClients, frames, engine, photosRes>>

\* EnforceDestroy that lets a failed destroy reject the run: the DELETE of
\* the rows is never issued
EnforceDestroy_Propagate(u, ok) ==
  /\ enf[u].pc = "destroy"
  /\ blobs' = IF ok THEN blobs \ {enf[u].rows[enf[u].i].public_id} ELSE blobs
  /\ enf' = IF ok
              THEN [enf EXCEPT ![u].i = @ + 1,
                               ![u].pc = IF enf[u].i = Len(enf[u].rows) THEN "delete" ELSE "destroy"]
              ELSE [enf EXCEPT ![u].pc = "rejected"]
  /\ UNCHANGED <<clock, catalog, up, del, sseClients, frames, engine, photosRes>>

\* one turn of `for (const pid of publicIds)`: cloudinary.uploader.destroy
\* is awaited, a failure is caught and ignored.  (part_000 starts every
\* destroy without awaiting it and issues the DELETE at once; the order
\* "destroy attempted, then row deleted" is the same.)
EnforceDestroy(u, ok) ==
  /\ enf[u].pc = "destroy"
  /\ blobs' = IF ok THEN blobs \ {enf[u].rows[enf[u].i].public_id} ELSE blobs
  /\ enf' = [enf EXCEPT ![u].i = @ + 1,
                        ![u].pc = IF enf[u].i = Len(enf[u].rows) THEN "delete" ELSE "destroy"]
  /\ UNCHANGED <<clock, catalog, up, del, sseClients, frames, engine, photosRes>>

\* EnforceDelete that announces the rows it deleted: photo_deleted is
\* sent for the first of them
EnforceDelete_Publish(u, ok) ==
  /\ enf[u].pc = "delete"
  /\ IF ok
       THEN /\ catalog' = DeleteAny(catalog, {enf[u].rows[k].id : k \in DOMAIN enf[u].rows})
            /\ enf' = [enf EXCEPT ![u].pc = "done"]
            /\ sseSend([type |-> "photo_deleted", id |-> enf[u].rows[1].id])
       ELSE /\ catalog' = catalog
            /\ enf' = [enf EXCEPT ![u].pc = "rejected"]
            /\ frames' = frames
  /\ UNCHANGED <<clock, blobs, up, del, sseClients, engine, photosRes>>

\* DELETE FROM photos WHERE id = ANY(ids)
EnforceDelete(u, ok) ==
  /\ enf[u].pc = "delete"
  /\ IF ok
       THEN /\ catalog' = DeleteAny(catalog, {enf[u].rows[k].id : k \in DOMAIN enf[u].rows})
            /\ enf' = [enf EXCEPT ![u].pc = "done"]
       ELSE /\ catalog' = catalog
            /\ enf' = [enf EXCEPT ![u].pc = "rejected"]
  /\ UNCHANGED <<clock, blobs, up, del, sseClients, frames, engine, photosRes>>

(* -------------------------- DeletionPipeline -------------------------- *)
\* DeleteRequest without the key comparison
DeleteRequest_NoKeyCheck(d, id, key) ==
  /\ del[d].pc = "idle"
  /\ del' = [del EXCEPT ![d] = [DelIdle EXCEPT !.pc = "lookup", !.id = id, !.key = key]]
  /\ UNCHANGED <<clock, catalog, blobs, up, enf, sseClients, frames, engine, photosRes>>

\* DELETE /photos/:id arrives: 403 unless x-admin-key is ADMIN_KEY;
\* otherwise the SELECT public_id ... WHERE id = $1 is issued
DeleteRequest(d, id, key) ==
  /\ del[d].pc = "idle"
  /\ del' = [del EXCEPT ![d] =
               IF key # ADMIN_KEY
                 THEN [DelIdle EXCEPT !.pc = "done", !.id = id, !.key = key, !.status = 403]
                 ELSE [DelIdle EXCEPT !.pc = "lookup", !.id = id, !.key = key]]
  /\ UNCHANGED <<clock, catalog, blobs, up, enf, sseClients, frames, engine, photosRes>>

\* DeleteLookup without the empty-result return: the handler goes on to
\* destroy the blob the id would have
DeleteLookup_NoEmptyCheck(d, ok) ==
  /\ del[d].pc = "lookup"
  /\ del' = [del EXCEPT ![d] =
               IF ~ok THEN [@ EXCEPT !.pc = "done", !.status = 500]
               ELSE [@ EXCEPT !.pc = "destroy", !.publicId = PublicId(del[d].id)]]
  /\ UNCHANGED <<clock, catalog, blobs, up, enf, sseClients, frames, engine, photosRes>>

\* the lookup returns: no row answers 404, a row starts the Cloudinary
\* destroy of its public_id; a failed query answers 500
DeleteLookup(d, ok) ==
  /\ del[d].pc = "lookup"
  /\ del' = [del EXCEPT ![d] =
               IF ~ok THEN [@ EXCEPT !.pc = "done", !.status = 500]
               ELSE IF \A r \in catalog : r.id # del[d].id
                 THEN [@ EXCEPT !.pc = "done", !.status = 404]
                 ELSE [@ EXCEPT !.pc = "destroy",
                                !.publicId = (CHOOSE r \in catalog : r.id = del[d].id).public_id]]
  /\ UNCHANGED <<clock, catalog, blobs, up, enf, sseClients, frames, engine, photosRes>>

\* DeleteDestroy that never calls Cloudinary: the blob stays in the store
DeleteDestroy_NoCall(d, ok) ==
  /\ del[d].pc = "destroy"
  /\ del' = [del EXCEPT ![d].pc = "delete", ![d].destroyed = TRUE]
  /\ UNCHANGED <<clock, catalog, blobs, up, enf, sseClients, frames, engine, photosRes>>

\* cloudinary.uploader.destroy(publicId) inside try {} catch {}: the
\* DELETE is issued whether or not the destroy succeeded
DeleteDestroy(d, ok) ==
  /\ del[d].pc = "destroy"
  /\ blobs' = IF ok THEN blobs \ {del[d].publicId} ELSE blobs
  /\ del' = [del EXCEPT ![d].pc = "delete", ![d].destroyed = TRUE]
  /\ UNCHANGED <<clock, catalog, up, enf, sseClients, frames, engine, photosRes>>

\* DELETE FROM photos WHERE id = $1 completes (the number of rows it
\* removed is not read): photo_deleted is sent and the handler answers 200;
\* a failed statement answers 500
DeleteRow(d, ok) ==
  /\ del[d].pc = "delete"
  /\ IF ok
       THEN /\ catalog' = {r \in catalog : r.id # del[d].id}
            /\ sseSend([type |-> "photo_deleted", id |-> del[d].id])
            /\ del' = [del EXCEPT ![d].pc = "done", ![d].status = 200]
       ELSE /\ del' = [del EXCEPT ![d].pc = "done", ![d].status = 500]
            /\ UNCHANGED <<catalog, frames>>
  /\ UNCHANGED <<clock, blobs, up, enf, sseClients, engine, photosRes>>

(* ----------------------------- GET /events ---------------------------- *)
\* Subscribe that joins sseClients without writing the hello frame
Subscribe_NoHello(s) ==
  /\ s \notin sseClients
  /\ frames[s] = <<>>
  /\ sseClients' = sseClients \cup {s}
  /\ UNCHANGED <<clock, catalog, blobs, up, enf, del, frames, engine, photosRes>>

\* a new connection: the response joins sseClients and gets the hello frame
Subscribe(s) ==
  /\ s \notin sseClients
  /\ frames[s] = <<>>
  /\ sseClients' = sseClients \cup {s}
  /\ frames' = [frames EXCEPT ![s] = <<[type |-> "hello", id |-> 0]>>]
  /\ UNCHANGED <<clock, catalog, blobs, up, enf, del, engine, photosRes>>

\* a Set.delete that adds the element when it is absent
SetDelete_Toggle(S, x) == IF x \in S THEN S \ {x} ELSE S \cup {x}

\* Set.prototype.delete: S without x; S itself when x is not in it
SetDelete(S, x) == S \ {x}

\* req.on("close"), emitted once per connection: sseClients.delete(res)
Close(s) ==
  /\ s \in sseClients
  /\ sseClients' = SetDelete(sseClients, s)
  /\ UNCHANGED <<clock, catalog, blobs, up, enf, del, frames, engine, photosRes>>

(* ------------------------------ the server ---------------------------- *)
\* the requests that have arrived so far
Requests ==
  Cardinality({u \in Ids : up[u].pc # "idle"})
    + Cardinality({d \in Dels : del[d].pc # "idle"})
    + Cardinality({s \in Subs : frames[s] # <<>>})

\* The handlers never compare ids, so which uuid an upload draws makes no
\* difference to them: the uploads of a server run take the ids in order,
\* and one upload more than the catalog may hold makes the enforcer evict.
ServerIds == {u \in Ids : u <= MAX_PHOTOS + 1}
FreeUp(u) == \A v \in ServerIds : v < u => up[v].pc # "idle"

\* request slots are interchangeable: they are taken in order
FreeDel(d) == \A e \in Dels : e < d => del[e].pc # "idle"
FreeSub(s) == \A t \in Subs : t < s => frames[t] # <<>>

\* the steps of the requests that are in
Proceed ==
  \/ \E u \in Ids, ok \in BOOLEAN : UploadStream(u, ok)
  \/ \E u \in Ids, ok \in BOOLEAN : InsertPhoto(u, ok)
  \/ \E u \in Ids, ok \in BOOLEAN : EnforceSelect(u, ok)
  \/ \E u \in Ids, ok \in BOOLEAN : EnforceDestroy(u, ok)
  \/ \E u \in Ids, ok \in BOOLEAN : EnforceDelete(u, ok)
  \/ \E d \in Dels, ok \in BOOLEAN : DeleteLookup(d, ok)
  \/ \E d \in Dels, ok \in BOOLEAN : DeleteDestroy(d, ok)
  \/ \E d \in Dels, ok \in BOOLEAN : DeleteRow(d, ok)
  \/ \E s \in Subs : Close(s)

\* runs of at most MaxRequests requests
Next ==
  \/ /\ Requests < MaxRequests
     /\ \E u \in ServerIds, hasFile \in BOOLEAN, now \in Now :
          FreeUp(u) /\ UploadRequest(u, hasFile, now)
  \/ /\ Requests < MaxRequests
     /\ \E d \in Dels, id \in ServerIds, key \in Keys :
          FreeDel(d) /\ DeleteRequest(d, id, key)
  \/ /\ Requests < MaxRequests
     /\ \E s \in Subs : FreeSub(s) /\ Subscribe(s)
  \/ Proceed

Spec == Init /\ [][Next]_vars

\* runs of one request more
NextWide ==
  \/ /\ Requests < MaxRequests + 1
     /\ \E u \in ServerIds, hasFile \in BOOLEAN, now \in Now :
          FreeUp(u) /\ UploadRequest(u, hasFile, now)
  \/ /\ Requests < MaxRequests + 1
     /\ \E d \in Dels, id \in ServerIds, key \in Keys :
          FreeDel(d) /\ DeleteRequest(d, id, key)
  \/ /\ Requests < MaxRequests + 1
     /\ \E s \in Subs : FreeSub(s) /\ Subscribe(s)
  \/ Proceed

SpecWide == Init /\ [][NextWide]_vars

(* --------------------- properties of the pipelines -------------------- *)
HasRow(id) == \E r \in catalog : r.id = id

\* the frames of kind type about id that connection s has received
Received(s, type, id) ==
  {k \in DOMAIN frames[s] : frames[s][k] = [type |-> type, id |-> id]}

\* C5: an authorized delete of an id without a catalog row answers 404 and
\* changes nothing: catalog, blob store and every event stream stay as they
\* are and no Cloudinary destroy is attempted.
C5_DeleteUnknownId ==
  /\ [](\A d \in Dels : del[d].status = 404 => del[d].pc = "done" /\ ~del[d].destroyed)
  /\ [][\A d \in Dels :
          (del[d].pc = "lookup" /\ del'[d].pc # "lookup" /\ del'[d].status # 500
             /\ ~HasRow(del[d].id))
            => /\ del'[d].pc = "done" /\ del'[d].status = 404 /\ ~del'[d].destroyed
               /\ catalog' = catalog /\ blobs' = blobs /\ frames' = frames]_vars

\* a delete of an unknown id answered 404 while rows and a listener exist
C5_Witness ==
  \E d \in Dels : del[d].status = 404 /\ catalog # {} /\ sseClients # {} /\ blobs # {}

\* C6: a deleted id is in no later listing, and no connection receives more
\* than one photo_deleted for the same id, whatever deletes and evictions
\* interleave.
C6_OneRemovedEvent ==
  /\ \A d \in Dels : del[d].status = 200 => ~HasRow(del[d].id)
  /\ \A s \in Subs, id \in Ids : Cardinality(Received(s, "photo_deleted", id)) <= 1

\* C7: when the row is already gone at the handler's own DELETE, the caller
\* is told not-found; at most one of the deletes of an id reports success.
C7_RacedDeleteNotFound ==
  /\ [](\A d, e \in Dels : (d # e /\ del[d].status = 200 /\ del[e].status = 200)
                             => del[d].id # del[e].id)
  /\ [][\A d \in Dels :
          (del[d].pc = "delete" /\ del'[d].pc = "done" /\ del'[d].status # 500
             /\ ~HasRow(del[d].id))
            => del'[d].status = 404]_vars

\* C8: a delete whose x-admin-key is missing or wrong answers 403 and
\* reaches no step of the pipeline: no lookup, no destroy, no DELETE, no
\* event; catalog, blob store and event streams are unchanged.
C8_Unauthorized ==
  /\ [](\A d \in Dels : (del[d].pc # "idle" /\ del[d].key # ADMIN_KEY)
          => /\ del[d].pc = "done" /\ del[d].status = 403
             /\ del[d].publicId = <<>> /\ ~del[d].destroyed)
  /\ [][\A d \in Dels :
          (del[d].pc = "idle" /\ del'[d].pc # "idle" /\ del'[d].key # ADMIN_KEY)
            => /\ del'[d].status = 403
               /\ catalog' = catalog /\ blobs' = blobs /\ frames' = frames]_vars

\* a refused delete of an id that has a row, with a listener connected
C8_Witness ==
  \E d \in Dels : del[d].status = 403 /\ HasRow(del[d].id) /\ sseClients # {}

\* an upload answered 500 because the blob write failed / the INSERT failed
BlobWriteFailed(u) == up[u].error = "cloudinary"
InsertFailed(u) == up[u].error = "pg"

\* C9: when the blob write fails the upload answers 500, creates no catalog
\* row, starts no enforcement run and sends no photo_uploaded; catalog and
\* event streams are unchanged by it.
C9_BlobWriteFailure ==
  /\ [](\A u \in Ids : BlobWriteFailed(u)
          => /\ up[u].pc = "done" /\ up[u].status = 500
             /\ ~HasRow(u) /\ enf[u].pc = "none"
             /\ \A s \in Subs : Received(s, "photo_uploaded", u) = {})
  /\ [][\A u \in Ids : (~BlobWriteFailed(u) /\ BlobWriteFailed(u)')
          => catalog' = catalog /\ frames' = frames /\ enf' = enf /\ blobs' = blobs]_vars

\* a failed blob write while rows and a listener exist
C9_Witness == \E u \in Ids : BlobWriteFailed(u) /\ catalog # {} /\ sseClients # {}

\* C10: when the INSERT fails after the blob was written the upload answers
\* 500, sends no photo_uploaded, starts no enforcement run and leaves the
\* catalog unchanged, and the written blob stays in the blob store.
C10_InsertFailure ==
  /\ [](\A u \in Ids : InsertFailed(u)
          => /\ up[u].pc = "done" /\ up[u].status = 500
             /\ ~HasRow(u) /\ enf[u].pc = "none"
             /\ PublicId(u) \in blobs
             /\ \A s \in Subs : Received(s, "photo_uploaded", u) = {})
  /\ [][\A u \in Ids : (~InsertFailed(u) /\ InsertFailed(u)')
          => catalog' = catalog /\ frames' = frames /\ enf' = enf /\ blobs' = blobs]_vars

\* a failed INSERT while rows and a listener exist
C10_Witness == \E u \in Ids : InsertFailed(u) /\ catalog # {} /\ sseClients # {}

(* ------------------- order of the upload's side effects --------------- *)
\* the photo_uploaded frames about id written to connection s by this step
NewFrames(s, type, id) ==
  {k \in DOMAIN frames'[s] : k > Len(frames[s]) /\ frames'[s][k] = [type |-> type, id |-> id]}

\* C11: a catalog row for id is inserted only when the blob of id has been
\* written (it is in the blob store at the INSERT), photo_uploaded for id is
\* sent only once the row of id is inserted, and every catalog row's
\* public_id is the one Cloudinary accepted for the upload that wrote it.
C11_UploadOrder ==
  /\ [](\A r \in catalog : r.public_id = PublicId(r.id) /\ up[r.id].status = 200)
  /\ [](\A u \in Ids, s \in Subs : Received(s, "photo_uploaded", u) # {} => up[u].status = 200)
  /\ [][\A u \in Ids : (~HasRow(u) /\ HasRow(u)') => PublicId(u) \in blobs]_vars
  /\ [][\A u \in Ids, s \in Subs :
          NewFrames(s, "photo_uploaded", u) # {} => (up[u].pc = "insert" /\ HasRow(u)')]_vars

\* a row whose photo_uploaded was received and whose blob is already
\* destroyed: the blob was in the store earlier, not now
C11_Witness ==
  \E r \in catalog, s \in Subs :
    Received(s, "photo_uploaded", r.id) # {} /\ r.public_id \notin blobs

(* ----------------------- delivery of the events ------------------------ *)
Hello == [type |-> "hello", id |-> 0]
Events == [type : {"photo_uploaded", "photo_deleted"}, id : Ids]

\* this step is a call sseSend(e): the upload's after its INSERT, or the
\* delete's after its DELETE
Publishes(e) ==
  \/ /\ e.type = "photo_uploaded"
     /\ up[e.id].pc = "insert" /\ up'[e.id].status = 200
  \/ /\ e.type = "photo_deleted"
     /\ \E d \in Dels : del[d].id = e.id /\ del[d].pc = "delete" /\ del'[d].status = 200

\* C12: a published event is written once to every connection that is in
\* sseClients at the call and to no other: a connection closed before gets
\* nothing, and a connection opened later starts with the hello frame
\* alone, without any earlier event.
C12_Delivery ==
  [][/\ frames' = frames => (sseClients = {} \/ \A e \in Events : ~Publishes(e))
     /\ frames' # frames =>
          IF \E e \in Events : Publishes(e)
            THEN \A e \in Events : Publishes(e) =>
                   \A s \in Subs : frames'[s] = IF s \in sseClients THEN Append(frames[s], e)
                                                 ELSE frames[s]
            ELSE \A s \in Subs : \/ frames'[s] = frames[s]
                                  \/ /\ s \notin sseClients /\ s \in sseClients'
                                     /\ frames[s] = <<>> /\ frames'[s] = <<Hello>>]_vars

\* a connection got the first upload's event and closed; the second
\* upload's event, published after the close, is not in its frames
C12_Witness ==
  \E s \in Subs, u, v \in Ids :
    /\ u # v /\ up[u].status = 200 /\ up[v].status = 200
    /\ s \notin sseClients
    /\ frames[s] = <<Hello, [type |-> "photo_uploaded", id |-> u]>>

(* ----------------------------- GET /photos ---------------------------- *)
\* req.query.limit: a string of characters, or Absent (no such parameter)
Absent == <<"undefined">>
Chars == {"-", "0", "1", "2", "9", "x"}
Digits == {"0", "1", "2", "3", "4", "5", "6", "7", "8", "9"}
StringsUpTo(n) == UNION {[1..k -> Chars] : k \in 0..n}

\* a JavaScript number: <<v>> for the integer v, NaN
NaN == <<>>
Num(v) == <<v>>

DigitVal(c) ==
  CASE c = "0" -> 0 [] c = "1" -> 1 [] c = "2" -> 2 [] c = "3" -> 3 [] c = "4" -> 4
    [] c = "5" -> 5 [] c = "6" -> 6 [] c = "7" -> 7 [] c = "8" -> 8 [] c = "9" -> 9

\* the longest prefix of s made of decimal digits
RECURSIVE LeadingDigits(_)
LeadingDigits(s) ==
  IF s = <<>> \/ Head(s) \notin Digits THEN <<>>
  ELSE <<Head(s)>> \o LeadingDigits(Tail(s))

RECURSIVE Decimal(_)
Decimal(ds) ==
  IF ds = <<>> THEN 0
  ELSE 10 * Decimal(SubSeq(ds, 1, Len(ds) - 1)) + DigitVal(ds[Len(ds)])

\* parseInt(s, 10): an optional sign, then the leading digits; NaN if none
parseInt(s) ==
  LET signed == s # <<>> /\ Head(s) \in {"-", "+"}
      ds == LeadingDigits(IF signed THEN Tail(s) ELSE s)
  IN  IF ds = <<>> THEN NaN
      ELSE IF signed /\ Head(s) = "-" THEN Num(0 - Decimal(ds)) ELSE Num(Decimal(ds))

\* Math.min(a, b): NaN if either is NaN
MathMin(a, b) ==
  IF a = NaN \/ b = NaN THEN NaN ELSE IF a[1] <= b[1] THEN a ELSE b

\* const limit = Math.min(parseInt(req.query.limit || "800", 10), 2000)
LimitParam(q) ==
  MathMin(parseInt(IF q = Absent \/ q = <<>> THEN DefaultLimit ELSE q), Num(LimitCeiling))

\* LIMIT $1 on a result of n rows: whether the statement fails, and the
\* number of rows it returns.  Postgres rejects a negative LIMIT and a
\* parameter that is not a bigint; SQLite rejects a value that is no integer
\* and reads a negative LIMIT as "no upper bound".
SqlLimit(eng, limit, n) ==
  IF limit = NaN THEN [err |-> TRUE, n |-> 0]
  ELSE IF limit[1] < 0
    THEN (IF eng = "sqlite" THEN [err |-> FALSE, n |-> n] ELSE [err |-> TRUE, n |-> 0])
  ELSE [err |-> FALSE, n |-> Min(limit[1], n)]

\* the handler on a table of which only the size is kept: the status and
\* the number of rows of the response
GetPhotosCount(q, size) ==
  /\ photosRes = <<>>
  /\ LET r == SqlLimit(engine, LimitParam(q), size)
     IN  photosRes' = <<[query |-> q, size |-> size,
                         status |-> IF r.err THEN 500 ELSE 200, count |-> r.n]>>
  /\ UNCHANGED <<clock, catalog, blobs, up, enf, del, sseClients, frames, engine>>

\* the handler on the catalog: SELECT ... ORDER BY created_at DESC LIMIT $1
\* and res.json(result.rows), or 500 when the query fails
GetPhotos(q) ==
  /\ Len(photosRes) < MaxLists
  /\ LET r == SqlLimit(engine, LimitParam(q), Cardinality(catalog))
     IN  IF r.err
           THEN photosRes' = Append(photosRes, [limit |-> LimitParam(q), status |-> 500, rows |-> <<>>])
           ELSE \E o \in OrderByCreatedAtDesc(catalog) :
                  photosRes' = Append(photosRes,
                    [limit |-> LimitParam(q), status |-> 200,
                     rows |-> [k \in 1..r.n |-> [id |-> o[k].id, createdAt |-> o[k].created_at]]])
  /\ UNCHANGED <<clock, catalog, blobs, up, enf, del, sseClients, frames, engine>>

\* the tables a server can start on: rows of earlier runs, with their blobs
Catalogs ==
  {{Row(u, t[u]) : u \in U} : U \in SUBSET Ids, t \in [Ids -> Times]}

Engines == {"pg", "sqlite"}

InitStarted ==
  /\ clock = 1
  /\ catalog \in Catalogs
  /\ blobs = {r.public_id : r \in catalog}
  /\ up = [u \in Ids |-> UpIdle]
  /\ enf = [u \in Ids |-> EnfNone]
  /\ del = [d \in Dels |-> DelIdle]
  /\ sseClients = {}
  /\ frames = [s \in Subs |-> <<>>]
  /\ engine \in Engines
  /\ photosRes = <<>>

\* listings of a table that no request changes
NextList == \E q \in {Absent} \cup StringsUpTo(1) : GetPhotos(q)

SpecList == InitStarted /\ [][NextList]_vars

\* the sizes of table photos the limit is tried on
Sizes == {0, 1, 799, 800, 801, 1999, 2000, 2001, 10000}

\* either build, started on an empty table
InitLimit ==
  /\ clock = 1
  /\ catalog = {}
  /\ blobs = {}
  /\ up = [u \in Ids |-> UpIdle]
  /\ enf = [u \in Ids |-> EnfNone]
  /\ del = [d \in Dels |-> DelIdle]
  /\ sseClients = {}
  /\ frames = [s \in Subs |-> <<>>]
  /\ engine \in Engines
  /\ photosRes = <<>>

NextLimit ==
  \E q \in {Absent} \cup StringsUpTo(MaxLimitLen), size \in Sizes : GetPhotosCount(q, size)

SpecLimit == InitLimit /\ [][NextLimit]_vars

IsPrefix(a, b) == Len(a) <= Len(b) /\ \A k \in DOMAIN a : a[k] = b[k]

\* C3: on an unchanged catalog two listNewest(k) calls return the same
\* sequence and listNewest(k) is a prefix of listNewest(k+1), also when rows
\* share createdAt.
C3_StablePrefix ==
  \A i, j \in DOMAIN photosRes :
    (photosRes[i].status = 200 /\ photosRes[j].status = 200) =>
      /\ photosRes[i].limit = photosRes[j].limit => photosRes[i].rows = photosRes[j].rows
      /\ photosRes[j].limit = Num(photosRes[i].limit[1] + 1)
           => IsPrefix(photosRes[i].rows, photosRes[j].rows)

\* C3 on catalogs whose rows all have distinct created_at
C3_NoTies ==
  (\A a, b \in catalog : a.created_at = b.created_at => a = b) => C3_StablePrefix

\* C4: whatever limit the caller sends, GET /photos returns at most 2000
\* rows, and at most 800 when limit is absent.
C4_Ceiling ==
  \A i \in DOMAIN photosRes :
    /\ photosRes[i].count <= 2000
    /\ photosRes[i].query = Absent => photosRes[i].count <= 800

\* C4 for the Postgres build alone
C4_CeilingPg == engine = "pg" => C4_Ceiling

(* ------------------- the frames of one connection --------------------- *)
\* the calls sseSend(e) made so far
PublishedCount(e) ==
  IF e.type = "photo_uploaded"
    THEN Cardinality({u \in Ids : u = e.id /\ up[u].status = 200})
    ELSE Cardinality({d \in Dels : del[d].id = e.id /\ del[d].status = 200})

\* C13: the frames of a connection start with the hello frame and every
\* later frame is an upload/delete event; frames are only ever appended, one
\* per publish and at the end, so they stand in the order of the publishes;
\* no connection holds more copies of an event than it was published.
C13_FrameOrder ==
  /\ [](\A s \in Subs : frames[s] # <<>> =>
          /\ frames[s][1] = Hello
          /\ \A k \in DOMAIN frames[s] : k > 1 =>
                /\ frames[s][k] \in Events
                /\ Cardinality(Received(s, frames[s][k].type, frames[s][k].id))
                     <= PublishedCount(frames[s][k]))
  /\ [][\A s \in Subs : frames'[s] # frames[s] =>
          /\ IsPrefix(frames[s], frames'[s])
          /\ Len(frames'[s]) = Len(frames[s]) + 1
          /\ frames[s] # <<>> => Publishes(frames'[s][Len(frames'[s])])]_vars

\* a connection that has received hello and then two different events
C13_Witness ==
  \E s \in Subs : Len(frames[s]) >= 3 /\ frames[s][2] # frames[s][3]

(* ----------------------- release of a connection ---------------------- *)
\* the connections that were opened
Subscribed == {s \in Subs : frames[s] # <<>>}

NextUploads ==
  \/ \E u \in Ids, now \in Now : UploadRequest(u, TRUE, now)
  \/ \E u \in Ids : UploadStream(u, TRUE)
  \/ \E u \in Ids : InsertPhoto(u, TRUE)
  \/ \E u \in Ids : EnforceSelect(u, TRUE)
  \/ \E u \in Ids, ok \in BOOLEAN : EnforceDestroy(u, ok)
  \/ \E u \in Ids : EnforceDelete(u, TRUE)

SpecUploads == Init /\ [][NextUploads]_vars

\* the total order of the specification: created_at, then id
Newer(a, b) ==
  \/ a.created_at > b.created_at
  \/ a.created_at = b.created_at /\ a.id > b.id

\* the rows of S among its first n in (created_at DESC, id DESC)
Newest(S, n) == {r \in S : Cardinality({x \in S : Newer(x, r)}) < n}

\* the rows the finished uploads inserted
Inserted == {Row(u, up[u].createdAt) : u \in {v \in Ids : up[v].status = 200}}

\* no upload and no enforcement run is in progress
UploadsQuiet ==
  /\ \A u \in Ids : up[u].pc \in {"idle", "done"}
  /\ \A u \in Ids : enf[u].pc \in {"none", "done", "rejected"}

\* C1: once N uploads and the enforcement runs they started have finished,
\* the catalog holds exactly min(N, MAX_PHOTOS) rows and they are the newest
\* of the inserted rows in (createdAt, id) order.
C1_EventualBound ==
  UploadsQuiet =>
    /\ Cardinality(catalog) = Min(Cardinality(Inserted), MAX_PHOTOS)
    /\ catalog = Newest(Inserted, MAX_PHOTOS)

\* the ids of the rows of S that rank beyond its first n
Ranked(S, n) == {r.id : r \in S \ Newest(S, n)}

\* C2: the rows an enforcement run selects are exactly the rows of the
\* catalog it read that are not among the first MAX_PHOTOS in
\* (createdAt DESC, id DESC), also when rows have identical createdAt.
C2_SelectsBeyondNewest ==
  [][\A u \in Ids :
       (enf[u].pc = "select" /\ enf'[u].pc \in {"destroy", "done"})
         => {enf'[u].rows[k].id : k \in DOMAIN enf'[u].rows} = Ranked(catalog, MAX_PHOTOS)]_vars

\* the size half of C1 alone
C1_SizeOnly ==
  UploadsQuiet => Cardinality(catalog) = Min(Cardinality(Inserted), MAX_PHOTOS)

\* C1 restricted to runs whose rows all have distinct created_at
C1_NoTies ==
  (UploadsQuiet /\ \A a, b \in Inserted : a.created_at = b.created_at => a = b) =>
    catalog = Newest(Inserted, MAX_PHOTOS)

(* ------------------------ best-effort blob deletes -------------------- *)
\* the ids of the rows an enforcement run holds
EnfIds(u) == {enf[u].rows[k].id : k \in DOMAIN enf[u].rows}

\* C15: a Cloudinary destroy, failed or not, is attempted once and the run
\* goes on: the enforcer moves to its next row and then deletes every row
\* it selected, the delete handler issues its DELETE, sends photo_deleted
\* and answers 200; no destroy step changes the catalog, an answer or an
\* event stream.  When the uploads and their enforcement runs are over and
\* no run was rejected by the database, the catalog holds at most
\* MAX_PHOTOS rows, whatever destroys failed.
C15_BestEffort ==
  /\ []((UploadsQuiet /\ \A u \in Ids : enf[u].pc # "rejected")
          => Cardinality(catalog) <= MAX_PHOTOS)
  /\ [][\A u \in Ids : (enf[u].pc = "destroy" /\ enf'[u] # enf[u]) =>
          /\ enf'[u].rows = enf[u].rows /\ enf'[u].i = enf[u].i + 1
          /\ enf'[u].pc = IF enf[u].i = Len(enf[u].rows) THEN "delete" ELSE "destroy"
          /\ catalog' = catalog /\ up' = up /\ frames' = frames]_vars
  /\ [][\A u \in Ids : (enf[u].pc = "delete" /\ enf'[u].pc = "done") =>
          \A r \in catalog' : r.id \notin EnfIds(u)]_vars
  /\ [][\A d \in Dels : (del[d].pc = "destroy" /\ del'[d] # del[d]) =>
          /\ del'[d].pc = "delete" /\ del'[d].status = 0
          /\ catalog' = catalog /\ frames' = frames]_vars
  /\ [][\A d \in Dels : (del[d].pc = "delete" /\ del'[d].pc = "done" /\ del'[d].status # 500) =>
          /\ del'[d].status = 200 /\ ~HasRow(del[d].id)'
          /\ \A s \in sseClients :
                frames'[s] = Append(frames[s], [type |-> "photo_deleted", id |-> del[d].id])]_vars

\* three uploads are over, the enforcer has evicted a row, and the blob of
\* the evicted row is still in the store: its destroy failed
C15_Witness ==
  /\ UploadsQuiet
  /\ \A u \in ServerIds : up[u].status = 200 /\ enf[u].pc = "done"
  /\ Cardinality(catalog) = MAX_PHOTOS
  /\ \E u \in ServerIds : ~HasRow(u) /\ PublicId(u) \in blobs

(* ------------------- the enforcer is detached from the upload --------- *)
\* C16: the step that inserts the row of an upload also starts its
\* enforcement run, sends photo_uploaded to every open connection and
\* answers 200, before any step of that run; an answer that is given never
\* changes, and no step of an enforcement run, failed or not, changes an
\* upload's answer or an event stream.
C16_Detached ==
  /\ [](\A u \in Ids : enf[u].pc # "none" => (up[u].pc = "done" /\ up[u].status = 200))
  /\ [][\A u \in Ids : (up[u].pc = "insert" /\ HasRow(u)') =>
          /\ up'[u].pc = "done" /\ up'[u].status = 200 /\ up'[u].error = ""
          /\ enf[u].pc = "none" /\ enf'[u].pc = "select"
          /\ \A s \in sseClients :
                frames'[s] = Append(frames[s], [type |-> "photo_uploaded", id |-> u])]_vars
  /\ [][\A u \in Ids : up[u].pc = "done" => up'[u] = up[u]]_vars
  /\ [][\A u \in Ids : (enf[u].pc # "none" /\ enf'[u] # enf[u])
          => (up' = up /\ frames' = frames)]_vars

\* an upload answered 200 whose enforcement run was rejected by the
\* database, with its photo_uploaded received by a connection
C16_Witness ==
  \E u \in Ids, s \in Subs :
    /\ enf[u].pc = "rejected" /\ up[u].status = 200
    /\ Received(s, "photo_uploaded", u) # {}

(* ------------------- destroy first, then the row ----------------------- *)
\* the destroy of row k of run u has been attempted
Attempted(u, k) == k \in DOMAIN enf[u].rows /\ k < enf[u].i

\* uploads 1, 2, 3 were stamped 1, 2, 3, all were inserted, and their
\* enforcement runs have ended without a rejected statement
ThreeUploadsDone ==
  \A u \in 1..3 :
    u \in Ids /\ up[u].status = 200 /\ up[u].createdAt = u /\ enf[u].pc = "done"

\* C17: every row an enforcement run deletes from the catalog is a row the
\* run selected, and the destroy of that row's public_id was attempted
\* earlier in the run; a destroy step removes no blob but the one of the
\* row it stands at.  With MAX_PHOTOS = 2 and uploads A, B, C stamped 1, 2,
\* 3, when the runs are over the catalog is {B, C} (no row having been
\* deleted by a DELETE request) and the destroy of A's blob was attempted.
C17_DestroyBeforeDelete ==
  /\ []((ThreeUploadsDone /\ \A d \in Dels : del[d].status # 200) =>
          /\ catalog = {Row(2, 2), Row(3, 3)}
          /\ \E u \in Ids : \E k \in DOMAIN enf[u].rows :
                enf[u].rows[k] = [id |-> 1, public_id |-> PublicId(1)] /\ Attempted(u, k))
  /\ [][\A u \in Ids : (enf[u].pc = "destroy" /\ enf'[u] # enf[u]) =>
          /\ blobs' \subseteq blobs
          /\ blobs \ blobs' \subseteq {enf[u].rows[enf[u].i].public_id}
          /\ ~Attempted(u, enf[u].i) /\ enf[u].i < enf'[u].i /\ enf'[u].rows = enf[u].rows]_vars
  /\ [][\A u \in Ids : (enf[u].pc = "delete" /\ enf'[u].pc = "done") =>
          \A r \in catalog \ catalog' :
            \E k \in DOMAIN enf[u].rows :
              /\ enf[u].rows[k] = [id |-> r.id, public_id |-> r.public_id]
              /\ Attempted(u, k)]_vars

\* the scenario: A, B, C uploaded at 1, 2, 3, the runs over, {B, C} left
C17_Witness ==
  ThreeUploadsDone /\ catalog = {Row(2, 2), Row(3, 3)}

(* ------------------- the enforcer and concurrent changes --------------- *)
\* C18: the rows an enforcement run deletes are, at its DELETE, not among
\* the newest MAX_PHOTOS rows of the catalog, and a DELETE of a run on a
\* catalog of at least MAX_PHOTOS rows leaves at least MAX_PHOTOS rows.
C18_NeverBelowBound ==
  [][\A u \in Ids :
       (enf[u].pc = "delete" /\ enf'[u].pc = "done" /\ Cardinality(catalog) >= MAX_PHOTOS)
         => /\ Cardinality(catalog') >= MAX_PHOTOS
            /\ (catalog \ catalog') \cap Newest(catalog, MAX_PHOTOS) = {}]_vars

\* C18 in runs whose inserted rows all have distinct created_at
C18_NoTies ==
  [][(\A a, b \in Inserted : a.created_at = b.created_at => a = b) =>
       \A u \in Ids :
         (enf[u].pc = "delete" /\ enf'[u].pc = "done" /\ Cardinality(catalog) >= MAX_PHOTOS)
           => /\ Cardinality(catalog') >= MAX_PHOTOS
              /\ (catalog \ catalog') \cap Newest(catalog, MAX_PHOTOS) = {}]_vars

(* ------------------------- runs without failures ---------------------- *)
\* uploads and /events connections, one request more than Spec: every
\* upload carries a file and no Cloudinary call and no catalog statement
\* fails, so the third upload makes the enforcer evict while connections
\* are open
NextEvict ==
  \/ /\ Requests < MaxRequests + 1
     /\ \E u \in ServerIds, now \in Now : FreeUp(u) /\ UploadRequest(u, TRUE, now)
  \/ /\ Requests < MaxRequests + 1
     /\ \E s \in Subs : FreeSub(s) /\ Subscribe(s)
  \/ \E u \in Ids : UploadStream(u, TRUE)
  \/ \E u \in Ids : InsertPhoto(u, TRUE)
  \/ \E u \in Ids : EnforceSelect(u, TRUE)
  \/ \E u \in Ids : EnforceDestroy(u, TRUE)
  \/ \E u \in Ids : EnforceDelete(u, TRUE)
  \/ \E s \in Subs : Close(s)

SpecEvict == Init /\ [][NextEvict]_vars

\* uploads and authorized deletes, one request more than Spec: every
\* upload carries a file, every delete request carries the admin key, and
\* no catalog statement and no Cloudinary destroy fails (a blob write may)
NextClean ==
  \/ /\ Requests < MaxRequests + 1
     /\ \E u \in ServerIds, now \in Now : FreeUp(u) /\ UploadRequest(u, TRUE, now)
  \/ /\ Requests < MaxRequests + 1
     /\ \E d \in Dels, id \in ServerIds : FreeDel(d) /\ DeleteRequest(d, id, ADMIN_KEY)
  \/ \E u \in Ids, ok \in BOOLEAN : UploadStream(u, ok)
  \/ \E u \in Ids : InsertPhoto(u, TRUE)
  \/ \E u \in Ids : EnforceSelect(u, TRUE)
  \/ \E u \in Ids : EnforceDestroy(u, TRUE)
  \/ \E u \in Ids : EnforceDelete(u, TRUE)
  \/ \E d \in Dels : DeleteLookup(d, TRUE)
  \/ \E d \in Dels : DeleteDestroy(d, TRUE)
  \/ \E d \in Dels : DeleteRow(d, TRUE)

SpecClean == Init /\ [][NextClean]_vars

(* ------------------------ eviction is silent --------------------------- *)
\* C19: no step of an enforcement run changes sseClients or any
\* connection's frames, so an evicted row brings no photo_deleted; a
\* photo_deleted frame about id is written only by the step of a DELETE
\* request for id that completes its DELETE statement.
C19_SilentEviction ==
  /\ [](\A s \in Subs : \A k \in DOMAIN frames[s] :
          frames[s][k].type = "photo_deleted"
            => \E d \in Dels : del[d].id = frames[s][k].id /\ del[d].status = 200)
  /\ [][\A u \in Ids : (enf[u].pc # "none" /\ enf'[u] # enf[u])
          => (frames' = frames /\ sseClients' = sseClients)]_vars
  /\ [][\A s \in Subs : frames'[s] # frames[s] =>
          \A id \in Ids :
            NewFrames(s, "photo_deleted", id) # {}
              => \E d \in Dels : del[d].id = id /\ del[d].pc = "delete" /\ del'[d].status = 200]_vars

\* a connection saw the three uploads, the oldest row was evicted while it
\* was open, and its frames are the hello frame and the three
\* photo_uploaded frames
C19_Witness ==
  \E s \in sseClients :
    /\ \A u \in ServerIds : Received(s, "photo_uploaded", u) # {} /\ enf[u].pc = "done"
    /\ Len(frames[s]) = 1 + Cardinality(ServerIds)
    /\ \E u \in ServerIds : ~HasRow(u)

(* ------------------- catalog and blob store at rest -------------------- *)
\* no upload, no delete request and no enforcement run is in progress
AllQuiet ==
  /\ UploadsQuiet
  /\ \A d \in Dels : del[d].pc \in {"idle", "done"}

\* C20: in runs without a failed destroy and without a failed catalog
\* statement, whenever nothing is in progress the blobs Cloudinary holds
\* are exactly the public_ids of the catalog rows.
C20_StoresAgree ==
  AllQuiet => blobs = {r.public_id : r \in catalog}

\* at rest after an eviction and a delete request that removed a row
C20_Witness ==
  /\ AllQuiet
  /\ \A u \in ServerIds : up[u].status = 200
  /\ \E d \in Dels : del[d].status = 200
  /\ \E u \in ServerIds : enf[u].rows # <<>>
  /\ catalog # {}

====
